---- MODULE Spec2Model ----
(***************************************************************************)
(* Model of src/main.py: the Agate poll/publish bridge.                    *)
(*                                                                         *)
(* One supervisor thread runs Agate.poll: read the SunSpec device, flatten *)
(* the selected models into (topic, payload) pairs, publish them over MQTT *)
(* and wait for the acknowledgments, then sleep.  The MQTT client's        *)
(* network loop (loop_start) is a second thread that acknowledges the      *)
(* publishes.  The SunSpec and MQTT libraries are the environment: each    *)
(* call either returns or raises.                                          *)
(***************************************************************************)
EXTENDS Integers, Sequences, FiniteSets, TLC

(***************************************************************************)
(* Bounds of the model.                                                    *)
(***************************************************************************)
MaxModels == 2      \* models in one scan result
MaxFail   == 2      \* the count of consecutive failed cycles saturates here
MaxCalls  == 2      \* the counts of scan and connect calls in a cycle saturate here

(***************************************************************************)
(* Program constants.                                                      *)
(***************************************************************************)
TOPIC_PREFIX == "FranklinWH"

\* fault variant: a key missing from the set
ExcludeKeysIdOnly == {"ID"}

EXCLUDE_KEYS == {"ID", "MnAlrmInfo"}

\* INCLUDE_MODELS, in the dict's insertion order
INCLUDE_ORDER == <<701, 713, 714, 502>>

\* fault variant: a name copied to a second entry
IncludeModelsNameTwice ==
    (701 :> "DERMeasureAC") @@ (713 :> "DERStorageCapacity") @@
    (714 :> "DERMeasureDC") @@ (502 :> "DERMeasureAC")

INCLUDE_MODELS ==
    (701 :> "DERMeasureAC") @@ (713 :> "DERStorageCapacity") @@
    (714 :> "DERMeasureDC") @@ (502 :> "SolarModule")

DefaultSleep      == 30
DefaultErrorSleep == 60

\* line 149: qos=1
PublishQos == 1

(***************************************************************************)
(* Python values: a kind and, for the kinds that carry one, the value.     *)
(***************************************************************************)
IntV(n) == [kind |-> "int", v |-> n]
StrV(s) == [kind |-> "str", v |-> s]
FloatV(s) == [kind |-> "float", v |-> s]
BoolV(b) == [kind |-> "bool", v |-> b]
NoneV == [kind |-> "none", v |-> "None"]
DictV == [kind |-> "dict", v |-> "{}"]

\* isinstance(value, (float, int)): bool is a subclass of int
IsNumber(value) == value.kind \in {"int", "float", "bool"}

\* the keys of a model dict, in iteration order
KeyOrder == <<"ID", "W", "Hz", "MnAlrmInfo">>

\* ids a device may report: two included models and one that is not
DeviceIds == {701, 502, 999}

\* the values of a field: two numbers and a string
WValues == {IntV(0), IntV(1500), StrV("x")}

\* a model as the device reports it
MkModel(id, w) ==
    ("ID" :> IntV(id)) @@ ("W" :> w) @@ ("MnAlrmInfo" :> StrV("x"))

DeviceModels == {MkModel(id, w) : id \in DeviceIds, w \in WValues}

\* a model with no "ID" key (a malformed scan result)
NoIdModel == ("W" :> IntV(0))

SeqsUpTo(S, n) == UNION {[1..k -> S] : k \in 0..n}

\* what the device client's get_dict() can return: a dict with a "models"
\* list, or one without that key
WellFormedDicts == {[models |-> ms] : ms \in SeqsUpTo(DeviceModels, MaxModels)}

MalformedDicts == {[other |-> <<>>], [models |-> <<NoIdModel>>]}

DeviceDicts == WellFormedDicts \cup MalformedDicts

NoValues == [none |-> TRUE]

EmptyDict == [k \in {} |-> 0]

\* the kinds of value a field of a scanned model can hold
FieldValues ==
    {IntV(0), IntV(1500), FloatV("1.5"), BoolV(TRUE), StrV("x"), NoneV, DictV}

\* MnAlrmInfo as a string and as a number
AlrmValues == {StrV("x"), IntV(3)}

\* the shape of a model: the value of W, whether Hz is there, MnAlrmInfo
Shapes == FieldValues \X BOOLEAN \X AlrmValues

ShapedModel(id, shape) ==
    ("ID" :> IntV(id)) @@ ("W" :> shape[1]) @@
    (IF shape[2] THEN ("Hz" :> IntV(60)) ELSE EmptyDict) @@
    ("MnAlrmInfo" :> shape[3])

\* a registry as read leaves it in self.models: each model under its own ID
Registry(ids, shapes) == [id \in ids |-> ShapedModel(id, shapes[id])]

(***************************************************************************)
(* Agate.read, lines 108-111: the registry built from values["models"].    *)
(***************************************************************************)
\* fault variant: line 108 left out, the old registry is kept
KeepRegistry(old) == old

\* line 108: self.models = {}
NewRegistry(old) == EmptyDict

\* lines 110-111 raise KeyError when "models" or a model's "ID" is missing
ReadRaises(vals) ==
    \/ "models" \notin DOMAIN vals
    \/ \E k \in 1..Len(vals.models) : "ID" \notin DOMAIN vals.models[k]

\* fault variant: an ID already in the registry keeps its first model
RECURSIVE StoreModelsKeepFirst(_, _)
StoreModelsKeepFirst(registry, ms) ==
    IF ms = <<>> THEN registry
    ELSE IF "ID" \notin DOMAIN Head(ms) THEN registry
    ELSE LET model == Head(ms)
             id    == model["ID"].v
         IN StoreModelsKeepFirst(
                [k \in (DOMAIN registry) \cup {id} |->
                    IF k \in DOMAIN registry THEN registry[k] ELSE model],
                Tail(ms))

\* lines 110-111: self.models[model["ID"]] = model, for each model in list
\* order, up to the first model that has no "ID"
RECURSIVE StoreModels(_, _)
StoreModels(registry, ms) ==
    IF ms = <<>> THEN registry
    ELSE IF "ID" \notin DOMAIN Head(ms) THEN registry
    ELSE LET model == Head(ms)
             id    == model["ID"].v
         IN StoreModels(
                [k \in (DOMAIN registry) \cup {id} |->
                    IF k = id THEN model ELSE registry[k]],
                Tail(ms))

ModelList(vals) == IF "models" \in DOMAIN vals THEN vals.models ELSE <<>>

(***************************************************************************)
(* Agate._maybe_topic and Agate.get_model_topics, lines 113-131.           *)
(***************************************************************************)
MaybeTopic(key, value) ==
    IF IsNumber(value) THEN <<[topic |-> key, payload |-> value]>> ELSE <<>>

FullTopic(prefix, key) == TOPIC_PREFIX \o "/AGate/" \o prefix \o "/" \o key

RECURSIVE ModelTopicsFrom(_, _, _)
ModelTopicsFrom(model, prefix, keys) ==
    IF keys = <<>> THEN <<>>
    ELSE LET key  == Head(keys)
             rest == ModelTopicsFrom(model, prefix, Tail(keys))
         IN IF key \notin DOMAIN model THEN rest
            ELSE IF key \in EXCLUDE_KEYS THEN rest
            ELSE MaybeTopic(FullTopic(prefix, key), model[key]) \o rest

GetModelTopics(model, prefix) == ModelTopicsFrom(model, prefix, KeyOrder)

(***************************************************************************)
(* Agate.publish, lines 169-172: the topics of the included models.        *)
(***************************************************************************)
RECURSIVE TopicsFrom(_, _)
TopicsFrom(registry, ids) ==
    IF ids = <<>> THEN <<>>
    ELSE LET model_id == Head(ids)
             rest     == TopicsFrom(registry, Tail(ids))
         IN IF model_id \in DOMAIN registry
            THEN GetModelTopics(registry[model_id], INCLUDE_MODELS[model_id]) \o rest
            ELSE rest

\* fault variant: publish walks the registry instead of INCLUDE_MODELS and
\* names a model that is not included "Unknown"
RECURSIVE TopicsOfAll(_, _)
TopicsOfAll(registry, ids) ==
    IF ids = <<>> THEN <<>>
    ELSE LET model_id == Head(ids)
             rest     == TopicsOfAll(registry, Tail(ids))
             name     == IF model_id \in DOMAIN INCLUDE_MODELS
                         THEN INCLUDE_MODELS[model_id] ELSE "Unknown"
         IN IF model_id \in DOMAIN registry
            THEN GetModelTopics(registry[model_id], name) \o rest
            ELSE rest

CollectTopicsOfAll(registry) == TopicsOfAll(registry, INCLUDE_ORDER \o <<999>>)

CollectTopics(registry) == TopicsFrom(registry, INCLUDE_ORDER)


(***************************************************************************)
(* State.                                                                  *)
(***************************************************************************)
VARIABLES
    pc,             \* where the supervisor thread is
    sleep,          \* self._sleep
    error_sleep,    \* poll's parameter
    models,         \* self.models
    values,         \* Agate.read's local: what get_dict returned
    devSession,     \* the Modbus session: "closed" or "open"
    closeCalled,    \* self._client.close() was called in this get_dict
    topics,         \* the list publish hands to publish_topics
    mqttSession,    \* the broker session: "none", "connected", "disconnected"
    loopRunning,    \* the client's network loop thread is running
    linkUp,         \* the broker has answered on the latest session so far
    handles,        \* the MQTTMessageInfo of each publish of this cycle
    pending,        \* publish_topics' local: indexes of handles
    still_pending,  \* publish_topics' local
    i,              \* position of the running for loop
    exc,            \* the exception in flight, or "none"
    slept,          \* the last time.sleep of poll: which interval, how long
    sleeps,         \* time.sleep calls of poll since the cycle began
    readOK,         \* self.read() returned in this cycle
    publishOK,      \* self.publish() returned in this cycle
    failedStage,    \* the stage that raised in this cycle, or "none"
    failures,       \* consecutive failed cycles, saturating at MaxFail
    scanCalls,      \* calls of self._client.scan() since the cycle began
    connectCalls,   \* calls of mqttc.connect() since the cycle began
    openAtStart     \* the device session was open when the cycle began

cfgVars   == <<sleep, error_sleep>>
devVars   == <<devSession, closeCalled>>
readVars  == <<models, values>>
mqttVars  == <<mqttSession, loopRunning, linkUp>>
pubVars   == <<topics, handles, pending, still_pending, i>>
sleepVars == <<slept, sleeps>>
callVars  == <<scanCalls, connectCalls, openAtStart>>
ghostVars == <<readOK, publishOK, failures, callVars>>

vars == <<pc, cfgVars, devVars, readVars, mqttVars, pubVars, exc, failedStage,
          sleepVars, ghostVars>>

\* --sleep and --error-sleep
SleepChoices      == {DefaultSleep}
ErrorSleepChoices == {DefaultErrorSleep}

NoSleep == [which |-> "none", secs |-> 0]

Init ==
    /\ pc = "poll"
    /\ sleep \in SleepChoices
    /\ error_sleep \in ErrorSleepChoices
    /\ models = EmptyDict
    /\ values = NoValues
    /\ devSession = "closed"
    /\ closeCalled = FALSE
    /\ topics = <<>>
    /\ mqttSession = "none"
    /\ loopRunning = FALSE
    /\ linkUp = FALSE
    /\ handles = <<>>
    /\ pending = <<>>
    /\ still_pending = <<>>
    /\ i = 0
    /\ exc = "none"
    /\ slept = NoSleep
    /\ sleeps = 0
    /\ readOK = FALSE
    /\ publishOK = FALSE
    /\ failedStage = "none"
    /\ failures = 0
    /\ scanCalls = 0
    /\ connectCalls = 0
    /\ openAtStart = FALSE

(***************************************************************************)
(* Exceptions.  Everything the libraries and the code raise derives from   *)
(* Exception.                                                              *)
(***************************************************************************)
ExceptionKinds == {"SunSpecError", "KeyError", "OSError", "ValueError", "RuntimeError"}

\* fault variant: no try/finally in publish_topics
HandlerNoFinally(at) ==
    IF at \in {"poll", "scan", "get_dict", "close", "read_models", "publish",
               "connect", "loop_start", "issue", "wait", "check", "wait_sleep",
               "disconnect", "loop_stop", "sleep"}
    THEN "raise"
    ELSE "escaped"

\* fault variant: a failed scan is tried again inside get_dict
HandlerRetryScan(at) ==
    IF at = "scan" THEN "scan"
    ELSE IF at \in {"issue", "wait", "check", "wait_sleep"} THEN "disconnect"
    ELSE IF at \in {"poll", "get_dict", "close", "read_models", "publish",
                    "connect", "loop_start", "disconnect", "loop_stop", "sleep"}
         THEN "raise"
    ELSE "escaped"

\* lines 146-162 and 185-192: where an exception raised at `at` lands.
\* Inside publish_topics' try it runs the finally block first; inside poll's
\* try it reaches the except clause; anywhere else it leaves poll.
Handler(at) ==
    IF at \in {"issue", "wait", "check", "wait_sleep"} THEN "disconnect"
    ELSE IF at \in {"poll", "scan", "get_dict", "close", "read_models", "publish",
                    "connect", "loop_start", "disconnect", "loop_stop", "sleep"}
         THEN "raise"
    ELSE "escaped"

\* fault variant: the except clause names one exception class only
ExceptionCaughtNarrow(e) == e = "OSError"

\* line 192: except Exception
ExceptionCaught(e) == e \in ExceptionKinds

\* line 184: while True
LoopAgain == "poll"

\* fault variant: the error path sleeps the normal interval
ErrorSleepSecsNormal == sleep

\* line 190: time.sleep(self._sleep)
NormalSleepSecs == sleep

\* line 198: time.sleep(error_sleep)
ErrorSleepSecs == error_sleep

\* one more call, counted up to MaxCalls
OneMore(n) == IF n < MaxCalls THEN n + 1 ELSE n

Raise(at, e, stage) ==
    /\ pc' = Handler(at)
    /\ exc' = e
    /\ failedStage' = stage

(***************************************************************************)
(* Agate.poll, lines 184-187: the top of a cycle, and the entry of read.   *)
(***************************************************************************)
Poll ==
    /\ pc = "poll"
    /\ pc' = "scan"
    /\ models' = NewRegistry(models)
    /\ values' = NoValues
    /\ closeCalled' = FALSE
    /\ topics' = <<>>
    /\ handles' = <<>>
    /\ pending' = <<>>
    /\ still_pending' = <<>>
    /\ i' = 0
    /\ sleeps' = 0
    /\ readOK' = FALSE
    /\ publishOK' = FALSE
    /\ failedStage' = "none"
    /\ scanCalls' = 0
    /\ connectCalls' = 0
    /\ openAtStart' = (devSession = "open")
    /\ UNCHANGED <<cfgVars, devSession, mqttVars, exc, slept, failures>>

(***************************************************************************)
(* Agate.get_dict, lines 101-104.                                          *)
(***************************************************************************)
\* line 101: scan() connects and reads the device; it raises before the
\* connection is made, or after
Scan ==
    /\ pc = "scan"
    /\ \/ /\ devSession' = "open"
          /\ pc' = "get_dict"
          /\ UNCHANGED <<exc, failedStage>>
       \/ /\ devSession' \in {"open", "closed"}
          /\ Raise("scan", "SunSpecError", "read")
    /\ scanCalls' = OneMore(scanCalls)
    /\ UNCHANGED <<cfgVars, closeCalled, readVars, mqttVars, pubVars, sleepVars,
                   readOK, publishOK, failures, connectCalls, openAtStart>>

\* line 102
ClientGetDict ==
    /\ pc = "get_dict"
    /\ \/ /\ \E d \in DeviceDicts : values' = d
          /\ pc' = "close"
          /\ UNCHANGED <<exc, failedStage>>
       \/ /\ Raise("get_dict", "SunSpecError", "read")
          /\ UNCHANGED values
    /\ UNCHANGED <<cfgVars, devVars, models, mqttVars, pubVars, sleepVars, ghostVars>>

\* fault variant: close() does not end the session
CloseSkipped ==
    /\ pc = "close"
    /\ closeCalled' = TRUE
    /\ pc' = "read_models"
    /\ UNCHANGED <<cfgVars, devSession, readVars, mqttVars, pubVars, exc, failedStage,
                   sleepVars, ghostVars>>

\* line 103
Close ==
    /\ pc = "close"
    /\ devSession' = "closed"
    /\ closeCalled' = TRUE
    /\ pc' = "read_models"
    /\ UNCHANGED <<cfgVars, readVars, mqttVars, pubVars, exc, failedStage, sleepVars,
                   ghostVars>>

(***************************************************************************)
(* Agate.read, lines 110-111.                                              *)
(***************************************************************************)
ReadModels ==
    /\ pc = "read_models"
    /\ models' = StoreModels(models, ModelList(values))
    /\ IF ReadRaises(values)
       THEN /\ Raise("read_models", "KeyError", "read")
            /\ UNCHANGED readOK
       ELSE /\ pc' = "publish"
            /\ readOK' = TRUE
            /\ UNCHANGED <<exc, failedStage>>
    /\ UNCHANGED <<cfgVars, devVars, values, mqttVars, pubVars, sleepVars, publishOK,
                   failures, callVars>>

(***************************************************************************)
(* Agate.publish, lines 169-173.                                           *)
(***************************************************************************)
Publish ==
    /\ pc = "publish"
    /\ topics' = CollectTopics(models)
    /\ pc' = "connect"
    /\ UNCHANGED <<cfgVars, devVars, readVars, mqttVars, handles, pending,
                   still_pending, i, exc, failedStage, sleepVars, ghostVars>>


(***************************************************************************)
(* Agate.publish_topics, lines 135-165.                                    *)
(***************************************************************************)
\* fault variant: qos left at its default
HandleQos0(pair, rc) ==
    [topic |-> pair.topic, payload |-> pair.payload, qos |-> 0, rc |-> rc,
     published |-> FALSE]

\* line 149, the publish and the MQTTMessageInfo it returns: rc is "ok" when
\* the message was handed to the session and "fail" when it was not (rc > 0)
Handle(pair, rc) ==
    [topic |-> pair.topic, payload |-> pair.payload, qos |-> PublishQos, rc |-> rc,
     published |-> FALSE]

\* line 157, mi.is_published(): raises for a publish whose rc is an error
IsPublishedRaises(h) == h.rc = "fail"

\* fault variant: the test of line 157 inverted
StaysPendingInverted(h) == h.published

\* line 157: the handle stays pending while it is not published
StaysPending(h) == ~h.published

\* fault variant: line 159 left out
NextPendingUnchanged(p, sp) == p

\* fault variant: the finally block returns, dropping the pending exception
AfterFinallySwallow(e) == "sleep"

\* line 159: pending = still_pending
NextPending(p, sp) == sp

\* lines 162-165 done: a pending exception is re-raised, else publish returns
AfterFinally(e) == IF e = "none" THEN "sleep" ELSE Handler("loop_stop")

\* lines 135-143: a new client, and connect
Connect ==
    /\ pc = "connect"
    /\ \/ /\ mqttSession' = "connected"
          /\ linkUp' = TRUE
          /\ pc' = "loop_start"
          /\ UNCHANGED <<exc, failedStage>>
       \/ /\ mqttSession' = "none"
          /\ linkUp' = FALSE
          /\ Raise("connect", "OSError", "connect")
    /\ connectCalls' = OneMore(connectCalls)
    /\ UNCHANGED <<cfgVars, devVars, readVars, loopRunning, pubVars, sleepVars,
                   readOK, publishOK, failures, scanCalls, openAtStart>>

\* lines 144-147
LoopStart ==
    /\ pc = "loop_start"
    /\ loopRunning' = TRUE
    /\ pending' = <<>>
    /\ i' = 1
    /\ pc' = "issue"
    /\ UNCHANGED <<cfgVars, devVars, readVars, mqttSession, linkUp, topics, handles,
                   still_pending, exc, failedStage, sleepVars, ghostVars>>

\* lines 148-150: one publish per pair; publish returns a handle or raises
Issue ==
    /\ pc = "issue"
    /\ \/ /\ i > Len(topics)
          /\ pc' = "wait"
          /\ UNCHANGED <<handles, pending, i, exc, failedStage>>
       \/ /\ i <= Len(topics)
          /\ \E rc \in {"ok", "fail"} :
                handles' = Append(handles, Handle(topics[i], rc))
          /\ pending' = Append(pending, Len(handles) + 1)
          /\ i' = i + 1
          /\ UNCHANGED <<pc, exc, failedStage>>
       \/ /\ i <= Len(topics)
          /\ Raise("issue", "ValueError", "publish")
          /\ UNCHANGED <<handles, pending, i>>
    /\ UNCHANGED <<cfgVars, devVars, readVars, mqttVars, topics, still_pending,
                   sleepVars, ghostVars>>

\* lines 153-155: while pending
Wait ==
    /\ pc = "wait"
    /\ IF pending = <<>>
       THEN /\ pc' = "disconnect"
            /\ UNCHANGED <<still_pending, i>>
       ELSE /\ pc' = "check"
            /\ still_pending' = <<>>
            /\ i' = 1
    /\ UNCHANGED <<cfgVars, devVars, readVars, mqttVars, topics, handles, pending,
                   exc, failedStage, sleepVars, ghostVars>>

\* lines 156-158: for mi in pending
Check ==
    /\ pc = "check"
    /\ \/ /\ i > Len(pending)
          /\ pc' = "wait_sleep"
          /\ UNCHANGED <<still_pending, i, exc, failedStage>>
       \/ /\ i <= Len(pending)
          /\ IsPublishedRaises(handles[pending[i]])
          /\ Raise("check", "RuntimeError", "wait")
          /\ UNCHANGED <<still_pending, i>>
       \/ /\ i <= Len(pending)
          /\ ~IsPublishedRaises(handles[pending[i]])
          /\ still_pending' = IF StaysPending(handles[pending[i]])
                              THEN Append(still_pending, pending[i])
                              ELSE still_pending
          /\ i' = i + 1
          /\ UNCHANGED <<pc, exc, failedStage>>
    /\ UNCHANGED <<cfgVars, devVars, readVars, mqttVars, topics, handles, pending,
                   sleepVars, ghostVars>>

\* lines 159-160: pending = still_pending; time.sleep(0.5)
WaitSleep ==
    /\ pc = "wait_sleep"
    /\ pending' = NextPending(pending, still_pending)
    /\ pc' = "wait"
    /\ UNCHANGED <<cfgVars, devVars, readVars, mqttVars, topics, handles,
                   still_pending, i, exc, failedStage, sleepVars, ghostVars>>

\* line 164, in the finally block
Disconnect ==
    /\ pc = "disconnect"
    /\ mqttSession' = "disconnected"
    /\ pc' = "loop_stop"
    /\ UNCHANGED <<cfgVars, devVars, readVars, loopRunning, linkUp, pubVars, exc,
                   failedStage, sleepVars, ghostVars>>

\* fault variant: loop_stop() left out
LoopStopSkipped ==
    /\ pc = "loop_stop"
    /\ pc' = AfterFinally(exc)
    /\ publishOK' = (exc = "none")
    /\ UNCHANGED <<cfgVars, devVars, readVars, mqttVars, pubVars, exc,
                   failedStage, sleepVars, readOK, failures, callVars>>

\* line 165, and the end of the finally block
LoopStop ==
    /\ pc = "loop_stop"
    /\ loopRunning' = FALSE
    /\ pc' = AfterFinally(exc)
    /\ publishOK' = (exc = "none")
    /\ UNCHANGED <<cfgVars, devVars, readVars, mqttSession, linkUp, pubVars, exc,
                   failedStage, sleepVars, readOK, failures, callVars>>

(***************************************************************************)
(* Agate.poll, lines 189-198.                                              *)
(***************************************************************************)
\* lines 189-190
Sleep ==
    /\ pc = "sleep"
    /\ slept' = [which |-> "sleep", secs |-> NormalSleepSecs]
    /\ sleeps' = sleeps + 1
    /\ failures' = 0
    /\ pc' = LoopAgain
    /\ UNCHANGED <<cfgVars, devVars, readVars, mqttVars, pubVars, exc, failedStage,
                   readOK, publishOK, callVars>>

\* lines 192-197: the except clause and its report
Catch ==
    /\ pc = "raise"
    /\ pc' = IF ExceptionCaught(exc) THEN "error_sleep" ELSE "escaped"
    /\ failures' = IF failures < MaxFail THEN failures + 1 ELSE failures
    /\ UNCHANGED <<cfgVars, devVars, readVars, mqttVars, pubVars, exc, failedStage,
                   sleepVars, readOK, publishOK, callVars>>

\* line 198
ErrorSleep ==
    /\ pc = "error_sleep"
    /\ slept' = [which |-> "error_sleep", secs |-> ErrorSleepSecs]
    /\ sleeps' = sleeps + 1
    /\ exc' = "none"
    /\ pc' = LoopAgain
    /\ UNCHANGED <<cfgVars, devVars, readVars, mqttVars, pubVars, failedStage,
                   ghostVars>>

(***************************************************************************)
(* The MQTT client's network loop thread, and the broker behind it.        *)
(***************************************************************************)
\* a PUBACK arrives: the handle of a publish that went out reports published
Ack ==
    /\ loopRunning
    /\ mqttSession = "connected"
    /\ linkUp
    /\ \E k \in 1..Len(handles) :
          /\ handles[k].rc = "ok"
          /\ ~handles[k].published
          /\ handles' = [handles EXCEPT ![k].published = TRUE]
    /\ UNCHANGED <<pc, cfgVars, devVars, readVars, mqttVars, topics, pending,
                   still_pending, i, exc, failedStage, sleepVars, ghostVars>>

\* the broker goes away while the session is up
BrokerDrop ==
    /\ mqttSession = "connected"
    /\ linkUp
    /\ linkUp' = FALSE
    /\ UNCHANGED <<pc, cfgVars, devVars, readVars, mqttSession, loopRunning, pubVars,
                   exc, failedStage, sleepVars, ghostVars>>

Supervisor ==
    \/ Poll \/ Scan \/ ClientGetDict \/ Close \/ ReadModels \/ Publish
    \/ Connect \/ LoopStart \/ Issue \/ Wait \/ Check \/ WaitSleep
    \/ Disconnect \/ LoopStop \/ Sleep \/ Catch \/ ErrorSleep

Next == Supervisor \/ Ack \/ BrokerDrop

Spec == Init /\ [][Next]_vars

\* the supervisor thread and the network loop thread both keep running
FairSpec == Spec /\ WF_vars(Supervisor) /\ WF_vars(Ack)

(***************************************************************************)
(* Agate.publish's flattening alone: read has returned with any registry,  *)
(* and publish collects the topics.                                        *)
(***************************************************************************)
FlattenInit ==
    /\ pc = "publish"
    /\ sleep \in SleepChoices
    /\ error_sleep \in ErrorSleepChoices
    /\ \E ids \in SUBSET DeviceIds : \E shapes \in [ids -> Shapes] :
          models = Registry(ids, shapes)
    /\ values = NoValues
    /\ devSession = "closed"
    /\ closeCalled = TRUE
    /\ topics = <<>>
    /\ mqttSession = "none"
    /\ loopRunning = FALSE
    /\ linkUp = FALSE
    /\ handles = <<>>
    /\ pending = <<>>
    /\ still_pending = <<>>
    /\ i = 0
    /\ exc = "none"
    /\ slept = NoSleep
    /\ sleeps = 0
    /\ readOK = TRUE
    /\ publishOK = FALSE
    /\ failedStage = "none"
    /\ failures = 0
    /\ scanCalls = 1
    /\ connectCalls = 0
    /\ openAtStart = FALSE

FlattenNext == Publish

FlattenSpec == FlattenInit /\ [][FlattenNext]_vars


(***************************************************************************)
(* Properties.                                                             *)
(***************************************************************************)
ReadStages == {"scan", "get_dict", "close", "read_models"}

\* between connect's return and the end of the finally block
SessionStages == {"loop_start", "issue", "wait", "check", "wait_sleep",
                  "disconnect", "loop_stop"}

WaitStages == {"wait", "check", "wait_sleep"}

SleepStages == {"sleep", "error_sleep"}

AllPublished == \A k \in 1..Len(handles) : handles[k].published

NoFailedHandle == \A k \in 1..Len(handles) : handles[k].rc = "ok"

ReturnedOK == pc = "sleep" /\ mqttSession = "disconnected" /\ ~loopRunning

\* C1: poll has no terminal state: it never returns and no exception leaves
\* it, and every exception raised in a cycle, after any number of failed
\* cycles, is followed by the start of another cycle.
C1_PollNeverEnds ==
    /\ [](pc \notin {"escaped", "returned"})
    /\ (exc # "none") ~> (pc = "poll" /\ exc = "none")

\* a cycle begins after MaxFail consecutive failed cycles
C1_Witness == pc = "scan" /\ failures = MaxFail /\ slept.which = "error_sleep"

\* C2: once control has left get_dict in a cycle, by return or by exception,
\* the device session is closed; so it is closed while the supervisor
\* sleeps.
C2_DeviceClosedOnExit ==
    pc \notin ({"poll"} \cup ReadStages) \/ pc = "read_models"
        => devSession = "closed"

\* C3: outside the part of publish_topics between connect and the end of
\* its finally block, and so while the supervisor sleeps, the broker session
\* is not connected and the network loop is not running.
C3_BrokerClosedOnExit ==
    pc \notin SessionStages => mqttSession # "connected" /\ ~loopRunning

\* an exception raised while issuing or waiting has left publish_topics
C3_Witness ==
    /\ pc = "raise"
    /\ failedStage \in {"publish", "wait"}
    /\ mqttSession = "disconnected"
    /\ ~loopRunning

\* C4: every cycle that starts reaches the normal or the error sleep.
C4_CycleReachesSleep == (pc = "scan") ~> (pc \in SleepStages)

\* C5: when publish_topics has returned normally, every handle of the call
\* reports published.
C5_ReturnMeansAcked == pc = "sleep" => AllPublished

\* a normal return with a handle for each model of a full scan result
C5_Witness == pc = "sleep" /\ Len(handles) >= 2 /\ AllPublished

\* C6: a wait in which every publish is acknowledged, in whatever order and
\* however interleaved with the polling of the handles, ends with a normal
\* return, the session disconnected and the normal sleep; a wait on
\* publishes that all went out ends so unless the broker goes away.
C6_AckedWaitReturns ==
    /\ (pc \in WaitStages /\ AllPublished) ~> ReturnedOK
    /\ (pc \in WaitStages /\ NoFailedHandle) ~> (ReturnedOK \/ ~linkUp)

\* the last acknowledgment arrived in the middle of a pass over the handles,
\* after an earlier handle was found unpublished
C6_Witness ==
    /\ pc = "check"
    /\ Len(handles) >= 2
    /\ AllPublished
    /\ still_pending # <<>>

\* C7: after a cycle in which any stage raised, the one sleep before the
\* next cycle was time.sleep(error_sleep), and the next cycle starts with a
\* device read.
C7_ErrorSleepThenRead ==
    /\ [](pc = "poll" /\ failedStage # "none"
            => slept = [which |-> "error_sleep", secs |-> error_sleep] /\ sleeps = 1)
    /\ [][pc = "error_sleep" => pc' = "poll"]_vars
    /\ [][pc = "poll" => pc' = "scan" /\ values' = NoValues]_vars

\* the ack wait failed and the error interval, which differs from the normal
\* one, was slept
C7_Witness ==
    /\ pc = "poll"
    /\ failedStage = "wait"
    /\ error_sleep # sleep
    /\ slept.secs = error_sleep

\* C8: between two cycles there is exactly one sleep, and it is the normal
\* one iff read and publish both returned in the cycle.
C8_NormalSleepIffSuccess ==
    pc = "poll" /\ slept.which # "none"
        => /\ sleeps = 1
           /\ (slept = [which |-> "sleep", secs |-> sleep]) <=> (readOK /\ publishOK)

\* a cycle that published something ended in the normal sleep
C8_Witness == pc = "poll" /\ slept.which = "sleep" /\ handles # <<>>

\* C9: the broker session and its network loop exist only after the read of
\* the same cycle completed and closed the device session, and during a
\* device read no network loop runs and no ack wait or sleep is outstanding.
C9_StagesInOrder ==
    /\ (pc \in SessionStages \/ mqttSession = "connected" \/ loopRunning)
          => readOK /\ closeCalled
    /\ pc \in ReadStages
          => ~loopRunning /\ mqttSession # "connected" /\ pending = <<>> /\ sleeps = 0

\* a device read of a later cycle, after a broker session was used
C9_Witness == pc = "get_dict" /\ mqttSession = "disconnected"

\* the pair is built from a field of an included model of vals
DerivedFrom(pair, vals) ==
    /\ "models" \in DOMAIN vals
    /\ \E k \in 1..Len(vals.models) :
          LET model == vals.models[k] IN
          /\ "ID" \in DOMAIN model
          /\ model["ID"].v \in DOMAIN INCLUDE_MODELS
          /\ \E key \in DOMAIN model :
                /\ pair.topic = FullTopic(INCLUDE_MODELS[model["ID"].v], key)
                /\ pair.payload = model[key]

\* C10: every pair handed to the publisher or published in a cycle comes
\* from what the device returned in that cycle, and a cycle whose read did
\* not return publishes nothing.
C10_PublishedFromThisRead ==
    /\ \A k \in 1..Len(topics) : DerivedFrom(topics[k], values)
    /\ \A k \in 1..Len(handles) : DerivedFrom(handles[k], values)
    /\ ~readOK => topics = <<>> /\ handles = <<>>

\* a publish in a cycle after the first
C10_Witness == pc = "wait" /\ handles # <<>> /\ slept.which # "none"

(***************************************************************************)
(* Properties of the flattening.                                           *)
(***************************************************************************)
SameValue(a, b) == a.kind = b.kind /\ a.v = b.v

EndsWith(str, suffix) ==
    /\ Len(str) >= Len(suffix)
    /\ SubSeq(str, Len(str) - Len(suffix) + 1, Len(str)) = suffix

\* the ids that are keys of both the registry and the include-set
SelectedIds == (DOMAIN models) \cap {701, 713, 714, 502}

\* the pair is the field key of the model the registry holds under id
PairOfField(pair, id, key) ==
    /\ pair.topic = FullTopic(INCLUDE_MODELS[id], key)
    /\ SameValue(pair.payload, models[id][key])

\* C11: every emitted pair is a field of a model whose ID is a key of both
\* the registry and INCLUDE_MODELS; a registry with no such ID yields no
\* pair, and included IDs that the registry lacks are passed over.
C11_OnlySelectedModels ==
    pc = "connect" =>
        /\ \A k \in 1..Len(topics) :
              \E id \in SelectedIds : \E key \in DOMAIN models[id] :
                  PairOfField(topics[k], id, key)
        /\ SelectedIds = {} => topics = <<>>

\* a registry with a model that is not included and without an included
\* one, flattened to some pairs
C11_Witness ==
    /\ pc = "connect"
    /\ 999 \in DOMAIN models
    /\ 701 \notin DOMAIN models
    /\ topics # <<>>

\* C12: no emitted topic ends with the field name ID or MnAlrmInfo as its
\* last segment.
C12_NoExcludedField ==
    \A k \in 1..Len(topics) : \A name \in {"ID", "MnAlrmInfo"} :
        ~EndsWith(topics[k].topic, "/" \o name)

\* pairs were emitted for a model whose ID and MnAlrmInfo are both numbers
C12_Witness ==
    /\ pc = "connect"
    /\ topics # <<>>
    /\ \E id \in SelectedIds : models[id]["MnAlrmInfo"].kind = "int"

\* C13: every emitted payload is an int or a float; a bool, like a string,
\* a dict or None, is not emitted.
C13_PayloadsIntOrFloat ==
    \A k \in 1..Len(topics) : topics[k].payload.kind \in {"int", "float"}

\* the pairs the claim describes: one for every field, not excluded and
\* holding an int or a float, of every model in both registry and include-set
ExactPairs ==
    UNION {{[topic |-> FullTopic(INCLUDE_MODELS[id], key), payload |-> models[id][key]] :
               key \in {f \in DOMAIN models[id] :
                           /\ f \notin {"ID", "MnAlrmInfo"}
                           /\ models[id][f].kind \in {"int", "float"}}} :
              id \in SelectedIds}

\* C14: the emitted pairs are exactly ExactPairs, each once.
C14_FlattenExact ==
    pc = "connect" =>
        /\ {topics[k] : k \in 1..Len(topics)} = ExactPairs
        /\ Len(topics) = Cardinality(ExactPairs)

\* C20: the topics of one cycle are pairwise distinct.
C20_TopicsDistinct ==
    \A j, k \in 1..Len(topics) : j # k => topics[j].topic # topics[k].topic

\* two included models with two emitted fields each
C20_Witness == pc = "connect" /\ Len(topics) >= 4

(***************************************************************************)
(* Properties of the publisher, the stages and the registry.               *)
(***************************************************************************)
\* the k-th publish of the call carries the k-th pair, at QoS 1
PublishOfPair(h, pair) ==
    /\ h.topic = pair.topic
    /\ SameValue(h.payload, pair.payload)
    /\ h.qos = 1

\* C15: the publishes of a call are the pairs in order, each once and at
\* QoS 1, none skipped or repeated; when the publish loop has run to its
\* end there is one for every pair; and a publish is only issued while the
\* session is connected and its loop runs.
C15_OnePublishPerPair ==
    /\ [](/\ Len(handles) <= Len(topics)
          /\ \A k \in 1..Len(handles) : PublishOfPair(handles[k], topics[k])
          /\ (pc \in WaitStages \/ publishOK) => Len(handles) = Len(topics))
    /\ [][Len(handles') > Len(handles) =>
             /\ Len(handles') = Len(handles) + 1
             /\ mqttSession = "connected" /\ loopRunning
             /\ mqttSession' = "connected" /\ loopRunning']_vars

\* the publish loop has ended with two publishes
C15_Witness == pc = "wait" /\ Len(handles) = 2 /\ Len(topics) = 2

\* C16: a cycle makes at most one scan and at most one connect; a cycle
\* whose read raised makes no connect and no publish; and an exception in
\* flight is always on its way to poll's except clause, through the finally
\* block at most.
C16_NoLocalRecovery ==
    /\ scanCalls <= 1
    /\ connectCalls <= 1
    /\ failedStage = "read" => connectCalls = 0 /\ handles = <<>> /\ topics = <<>>
    /\ exc # "none" => pc \in {"disconnect", "loop_stop", "raise", "error_sleep"}

\* a failed read, in a cycle after one that had a broker session
C16_Witness ==
    /\ pc = "error_sleep"
    /\ failedStage = "read"
    /\ scanCalls = 1
    /\ mqttSession = "disconnected"

\* C18: the device session and the broker session are never open together.
C18_SessionsDisjoint == ~(devSession = "open" /\ mqttSession = "connected")

\* a broker session in a cycle that began with the device session left open
C18_Witness == mqttSession = "connected" /\ openAtStart /\ devSession = "closed"

\* the k-th model of the scan result is the last one with its ID
LastOfItsId(ms, k) == \A j \in (k + 1)..Len(ms) : ms[j]["ID"].v # ms[k]["ID"].v

\* C19: after read, the registry holds one entry for each ID of the scan
\* result, the last model of the list with that ID, and the pairs handed to
\* the publisher come from those last models only.
C19_LastModelWins ==
    readOK =>
        LET ms == values.models IN
        /\ DOMAIN models = {ms[k]["ID"].v : k \in 1..Len(ms)}
        /\ \A k \in 1..Len(ms) : LastOfItsId(ms, k) => models[ms[k]["ID"].v] = ms[k]
        /\ \A n \in 1..Len(topics) :
              \E k \in 1..Len(ms) :
                  /\ LastOfItsId(ms, k)
                  /\ ms[k]["ID"].v \in DOMAIN INCLUDE_MODELS
                  /\ \E key \in DOMAIN ms[k] :
                        /\ topics[n].topic = FullTopic(INCLUDE_MODELS[ms[k]["ID"].v], key)
                        /\ SameValue(topics[n].payload, ms[k][key])

\* two models with one included ID and different numbers: one pair
C19_Witness ==
    /\ pc = "connect"
    /\ Len(values.models) = 2
    /\ values.models[1]["ID"].v = values.models[2]["ID"].v
    /\ values.models[1]["W"].kind = "int"
    /\ values.models[2]["W"].kind = "int"
    /\ values.models[1]["W"].v # values.models[2]["W"].v
    /\ Len(topics) = 1

====
